---- MODULE Spec2Model ----
(***************************************************************************)
(* Kernel Polynomial Method (emate): the cupy moment engine get_moments,   *)
(* the cupy reconstruction apply_kernel, and the two orchestrators pykpm   *)
(* (alias tfkpm) and cupykpm, in exact arithmetic.                         *)
(*                                                                         *)
(* Numbers are exact complex rationals [re, im, den] (value (re+i*im)/den).*)
(* Values the code obtains from cos/sqrt/DCT are kept as symbolic terms    *)
(* that record what they were computed from.                               *)
(***************************************************************************)
EXTENDS Integers, Sequences, FiniteSets, TLC

VARIABLES
    entry,          \* the public function the caller invoked
    pc,             \* position inside the running call
    args,           \* the caller's arguments, as passed
    H,              \* local H of the orchestrator / H_rescaled of get_moments
    lmin, lmax,     \* locals of the orchestrator: <<>> is None, <<x>> a number
    scale_fact_a, scale_fact_b,
    calls,          \* log of the calls made to the external collaborators
    probes,         \* log of the random vectors drawn by get_moments
    alpha0, alpha1, mu, i_moment,     \* frame of get_moments
    matvecs, iters, writes,           \* per-run counters of get_moments
    dimension,      \* H.shape[0] (orchestrators) / the dimension argument
    moments,        \* the rows returned by get_moments (cupykpm), the batch sum (pykpm)
    kernel,         \* kernel0: <<>> before it is built
    ak_moments,     \* apply_kernel's local `moments`
    num_points, mu_ext, smooth_moments, ek, gk, rho,   \* frame of apply_kernel
    result          \* what the public call returned or raised

orchVars == <<H, lmin, lmax, scale_fact_a, scale_fact_b, calls>>
gmVars   == <<probes, alpha0, alpha1, mu, i_moment, matvecs, iters, writes>>
akVars   == <<kernel, ak_moments, num_points, mu_ext, smooth_moments, ek, gk, rho>>
vars     == <<entry, pc, args, H, lmin, lmax, scale_fact_a, scale_fact_b, calls,
              probes, alpha0, alpha1, mu, i_moment, matvecs, iters, writes,
              dimension, moments, kernel, ak_moments, num_points, mu_ext,
              smooth_moments, ek, gk, rho, result>>

-----------------------------------------------------------------------------
(* Bounds of the model *)

MaxMoments == 6     \* num_moments ranges over 1..MaxMoments
MaxEntry   == 1     \* matrix entries have real and imaginary parts in -MaxEntry..MaxEntry
MaxVecs    == 2     \* num_vecs ranges over 1..MaxVecs
MaxExtra   == 1     \* extra_points ranges over -1..MaxExtra

-----------------------------------------------------------------------------
(* Exact complex arithmetic *)

Abs(n) == IF n < 0 THEN -n ELSE n

RECURSIVE Gcd(_, _)
Gcd(a, b) == IF b = 0 THEN a ELSE Gcd(b, a % b)

\* (re + i*im)/den in lowest terms, den > 0
Cx(re, im, den) ==
    LET g == Gcd(Gcd(Abs(re), Abs(im)), den)
    IN  [re |-> re \div g, im |-> im \div g, den |-> den \div g]

CInt(n) == [re |-> n, im |-> 0, den |-> 1]
CZero   == CInt(0)

CAdd(x, y) ==
    LET l == (x.den \div Gcd(x.den, y.den)) * y.den
    IN  Cx(x.re * (l \div x.den) + y.re * (l \div y.den),
           x.im * (l \div x.den) + y.im * (l \div y.den), l)

CNeg(x)    == [re |-> -x.re, im |-> -x.im, den |-> x.den]
CSub(x, y) == CAdd(x, CNeg(y))
CMul(x, y) == Cx(x.re * y.re - x.im * y.im, x.re * y.im + x.im * y.re, x.den * y.den)
CConj(x)   == [re |-> x.re, im |-> -x.im, den |-> x.den]
CReal(x)   == Cx(x.re, 0, x.den)

\* x / y for y # 0
CDiv(x, y) ==
    Cx((x.re * y.re + x.im * y.im) * y.den,
       (x.im * y.re - x.re * y.im) * y.den,
       x.den * (y.re * y.re + y.im * y.im))

RECURSIVE SumTo(_, _)
\* f[1] + ... + f[n]
SumTo(f, n) == IF n = 0 THEN CZero ELSE CAdd(SumTo(f, n - 1), f[n])

\* the array f[1], ..., f[n], with its elements computed
Array(f, n) == SubSeq(f, 1, n)

\* H.dot(x) for the matrix H (a sequence of rows) and the vector x
MatVec(M, x) ==
    Array([i \in 1..Len(M) |->
            SumTo([j \in 1..Len(x) |-> CMul(M[i][j], x[j])], Len(x))], Len(M))

\* (x.T.conj()).dot(y)
ConjDot(x, y) == SumTo([j \in 1..Len(x) |-> CMul(CConj(x[j]), y[j])], Len(x))

VSub(x, y)   == Array([j \in 1..Len(x) |-> CSub(x[j], y[j])], Len(x))
VScale(c, x) == Array([j \in 1..Len(x) |-> CMul(CInt(c), x[j])], Len(x))

\* cp.zeros(n)
Zeros(n) == Array([k \in 1..n |-> CZero], n)

-----------------------------------------------------------------------------
(* Inputs *)

Ints == -MaxEntry..MaxEntry

\* Hermitian 2x2 matrices with Gaussian-integer entries
HermitianMatrices ==
    { << <<CInt(a), Cx(b, c, 1)>>, <<Cx(b, -c, 1), CInt(d)>> >> :
        a \in Ints, b \in Ints, c \in Ints, d \in Ints }

\* values of exp(1j*2*pi*r) that are exact: r in {0, 1/4, 1/2, 3/4}
UnitPhases == { Cx(1, 0, 1), Cx(0, 1, 1), Cx(-1, 0, 1), Cx(0, -1, 1) }

\* the phases enumerated inside an orchestrator run (a batch of probes per
\* run): the first entry of a probe is 1, the others are 1 or i
BatchPhases == { Cx(1, 0, 1), Cx(0, 1, 1) }

\* cp.exp(1j*2*cp.pi*cp.random.rand(dimension))
RandomPhaseVectors(n) ==
    IF entry = "get_moments"
    THEN [1..n -> UnitPhases]
    ELSE { v \in [1..n -> BatchPhases] : v[1] = CInt(1) }

\* matrices given to the orchestrators
OrchMatrices ==
    { << <<CInt(1), Cx(1, c, 1)>>, <<Cx(1, -c, 1), CInt(0)>> >> : c \in 0..1 }

\* epsilon values given to the orchestrators
EpsilonValues == {0, 1}

NoResult == [status |-> "none", value |-> <<>>]

-----------------------------------------------------------------------------
(* get_moments, src/emate/hermitian/cupyops/kpm.py *)

\* alpha2 = 2*H_rescaled.dot(alpha1) - alpha0
NextAlpha(M, a1, a0) == VSub(VScale(2, MatVec(M, a1)), a0)

\* a batch-accumulated correction term: mu[0] summed over the probes so far
EvenMomentBatch(a1, m) ==
    CSub(CMul(CInt(2), ConjDot(a1, a1)),
         CAdd(m[1], SumTo([p \in 1..Len(moments) |-> moments[p][1]], Len(moments))))

\* mu[2*i_moment] = 2*(alpha1.T.conj()).dot(alpha1) - mu[0]
EvenMoment(a1, m) == CSub(CMul(CInt(2), ConjDot(a1, a1)), m[1])

\* the odd moment corrected with mu[0] in place of mu[1]
OddMomentMu0(a2, a1, m) == CSub(CMul(CInt(2), ConjDot(a2, a1)), m[1])

\* mu[2*i_moment+1] = 2*(alpha2.T.conj()).dot(alpha1) - mu[1]
OddMoment(a2, a1, m) == CSub(CMul(CInt(2), ConjDot(a2, a1)), m[2])

\* a loop that stops one iteration early
LoopRunsShort(i, num_moments) == i < num_moments \div 2 - 1

\* range(1, num_moments//2) still has the value i
LoopRuns(i, num_moments) == i < num_moments \div 2

Bump(w, k) == [w EXCEPT ![k] = @ + 1]

\* lines 48-52: draw the probe, first product, mu[0] and mu[1]
GetMomentsBegin ==
    /\ pc = "gm_begin"
    /\ \E v \in RandomPhaseVectors(dimension) :
        LET a1 == MatVec(H, v)
            m0 == [Zeros(args.num_moments) EXCEPT ![1] = ConjDot(v, v)]
        IN  /\ probes' = Append(probes, v)
            /\ alpha0' = v
            /\ alpha1' = a1
            /\ matvecs' = 1
            /\ iters' = 0
            /\ IF args.num_moments >= 2
               THEN /\ mu' = [m0 EXCEPT ![2] = ConjDot(v, a1)]
                    /\ writes' = Bump(Bump([k \in 1..args.num_moments |-> 0], 1), 2)
                    /\ i_moment' = 1
                    /\ pc' = "gm_loop"
                    /\ result' = result
               ELSE \* mu[1] is out of range for an array of one element
                    /\ mu' = m0
                    /\ writes' = Bump([k \in 1..args.num_moments |-> 0], 1)
                    /\ i_moment' = 0
                    /\ pc' = "raised"
                    /\ result' = [status |-> "IndexError", value |-> <<>>]
    /\ UNCHANGED <<entry, args, orchVars, dimension, moments, akVars>>

\* lines 54-60: one iteration of the loop
GetMomentsIter ==
    /\ pc = "gm_loop"
    /\ LoopRuns(i_moment, args.num_moments)
    /\ LET alpha2 == NextAlpha(H, alpha1, alpha0)
           m1 == [mu EXCEPT ![2 * i_moment + 1] = EvenMoment(alpha1, mu)]
           m2 == [m1 EXCEPT ![2 * i_moment + 2] = OddMoment(alpha2, alpha1, m1)]
       IN  /\ mu' = m2
           /\ alpha0' = alpha1
           /\ alpha1' = alpha2
    /\ writes' = Bump(Bump(writes, 2 * i_moment + 1), 2 * i_moment + 2)
    /\ matvecs' = matvecs + 1
    /\ iters' = iters + 1
    /\ i_moment' = i_moment + 1
    /\ UNCHANGED <<entry, pc, args, orchVars, probes, dimension, moments, akVars, result>>

\* line 62: return mu, to the caller of the public function or into the
\* list that cupykpm builds (kpm.py lines 208-211)
GetMomentsReturn ==
    /\ pc = "gm_loop"
    /\ ~LoopRuns(i_moment, args.num_moments)
    /\ IF entry = "get_moments"
       THEN /\ result' = [status |-> "ok", value |-> mu]
            /\ pc' = "done"
            /\ UNCHANGED moments
       ELSE /\ moments' = Append(moments, mu)
            /\ pc' = IF Len(moments') < args.num_vecs THEN "gm_begin" ELSE "cupy_kernel"
            /\ UNCHANGED result
    /\ UNCHANGED <<entry, args, orchVars, gmVars, dimension, akVars>>

-----------------------------------------------------------------------------
(* apply_kernel, src/emate/hermitian/cupyops/kpm.py *)

\* a moment times its kernel weight; weight <<>> is the factor 1, <<k, n>>
\* the k-th weight of the kernel of order n
Term(val, weight) == [val |-> val, weight |-> weight]

\* cp.sum(moments.real, axis=0) at column k
SumReal(rows, k) == SumTo([p \in 1..Len(rows) |-> CReal(rows[p][k])], Len(rows))

\* lines 79-80: moments = cp.sum(moments.real, axis=0); moments/num_vecs/dimension
Average(rows, num_vecs, dim) ==
    Array([k \in 1..Len(rows[1]) |->
            CDiv(CDiv(SumReal(rows, k), CInt(num_vecs)), CInt(dim))], Len(rows[1]))

\* a grid that forgets the extra points
NumPointsNoExtra(extra_points, num_moments) == num_moments

\* line 82
NumPoints(extra_points, num_moments) == extra_points + num_moments

\* lines 84-85: moments*kernel, elementwise
ApplyWeights(m, kern) ==
    Array([k \in 1..Len(m) |-> Term(m[k], IF kern = <<>> THEN <<>> ELSE kern[k])], Len(m))

\* line 88: the slice mu_ext[0:num_moments] of an array of n elements holds
\* min(num_moments, n) elements; the assignment needs as many on the right,
\* or a single one to broadcast
SliceFits(n, num_moments, m) ==
    LET slice == IF num_moments < n THEN num_moments ELSE n
    IN  Len(m) = slice \/ Len(m) = 1

\* lines 87-88: mu_ext = cp.zeros(num_points); mu_ext[0:num_moments] = moments
Pad(m, n, num_moments) ==
    Array([k \in 1..n |-> IF k <= num_moments
                          THEN (IF Len(m) = 1 THEN m[1] ELSE m[k])
                          ELSE Term(CZero, <<>>)], n)

\* dctIII(x): element j of the type-III cosine transform of x
DctIII(x) == Array([j \in 1..Len(x) |-> [node |-> j - 1, coeffs |-> x]], Len(x))

\* endpoint-inclusive nodes cos(pi*points/num_points)
NodeEndpoint(j, n) == [num |-> 2 * j, den |-> 2 * n]

\* line 92: cos(pi*(points+0.5)/num_points) = cos(pi*num/den)
Node(j, n) == [num |-> 2 * j + 1, den |-> 2 * n]

\* cos(pi*num/den) is +1 or -1 exactly when den divides num
AtEndpoint(x) == x.num % x.den = 0

\* line 93: gk = pi*sqrt(1 - ek**2), zero exactly at the endpoints
Weight(x) == [of |-> x, zero |-> AtEndpoint(x)]

\* line 95: cp.divide(smooth_moments, gk), elementwise; a zero divisor gives
\* a non-finite value, not an exception
Divide(s, g) ==
    Array([j \in 1..Len(s) |-> [num |-> s[j], by |-> g[j], finite |-> ~g[j].zero]], Len(s))

\* lines 79-80
AkAverage ==
    /\ pc = "ak_begin"
    /\ ak_moments' = Average(moments, args.num_vecs, dimension)
    /\ pc' = "ak_kernel"
    /\ UNCHANGED <<entry, args, orchVars, gmVars, dimension, moments, kernel,
                   num_points, mu_ext, smooth_moments, ek, gk, rho, result>>

\* lines 82-85
AkKernel ==
    /\ pc = "ak_kernel"
    /\ num_points' = NumPoints(args.extra_points, args.num_moments)
    /\ ak_moments' = ApplyWeights(ak_moments, kernel)
    /\ pc' = "ak_pad"
    /\ UNCHANGED <<entry, args, orchVars, gmVars, dimension, moments, kernel,
                   mu_ext, smooth_moments, ek, gk, rho, result>>

\* lines 87-88: cp.zeros raises ValueError for a negative size, the slice
\* assignment raises ValueError when the shapes do not fit
AkPad ==
    /\ pc = "ak_pad"
    /\ IF num_points >= 0 /\ SliceFits(num_points, args.num_moments, ak_moments)
       THEN /\ mu_ext' = Pad(ak_moments, num_points, args.num_moments)
            /\ pc' = "ak_transform"
            /\ UNCHANGED result
       ELSE /\ result' = [status |-> "ValueError", value |-> <<>>]
            /\ pc' = "raised"
            /\ UNCHANGED mu_ext
    /\ UNCHANGED <<entry, args, orchVars, gmVars, dimension, moments, kernel,
                   ak_moments, num_points, smooth_moments, ek, gk, rho>>

\* lines 90-97: transform, nodes, weights, density, return ek, rho
AkReconstruct ==
    /\ pc = "ak_transform"
    /\ LET s == DctIII(mu_ext)
           e == [j \in 1..num_points |-> Node(j - 1, num_points)]
           g == [j \in 1..num_points |-> Weight(e[j])]
       IN  /\ smooth_moments' = s
           /\ ek' = e
           /\ gk' = g
           /\ rho' = Divide(s, g)
    /\ pc' = "cupy_unscale"
    /\ UNCHANGED <<entry, args, orchVars, gmVars, dimension, moments, kernel,
                   ak_moments, num_points, mu_ext, result>>

-----------------------------------------------------------------------------
(* External collaborators of the orchestrators *)

RECURSIVE SumAbs(_, _, _)
\* sum over j # i of |re| + |im| of the entries of row i
SumAbs(row, i, n) ==
    IF n = 0 THEN 0
    ELSE SumAbs(row, i, n - 1) + (IF n = i THEN 0 ELSE Abs(row[n].re) + Abs(row[n].im))

SetMin(S) == CHOOSE x \in S : \A y \in S : x <= y
SetMax(S) == CHOOSE x \in S : \A y \in S : x >= y

\* get_bounds(H): an interval that encloses the spectrum (Gershgorin discs)
get_bounds(M) ==
    << SetMin({ M[i][i].re - SumAbs(M[i], i, Len(M)) : i \in 1..Len(M) }),
       SetMax({ M[i][i].re + SumAbs(M[i], i, Len(M)) : i \in 1..Len(M) }) >>

\* scale_a = (lmax - lmin)/(2 - epsilon)
ScaleA(lo, hi, epsilon) == CDiv(CInt(hi - lo), CInt(2 - epsilon))

\* scale_b = (lmax + lmin)/2
ScaleB(lo, hi) == CDiv(CInt(hi + lo), CInt(2))

\* H' = (H - b*I)/a
Rescaled(M, a, b) ==
    Array([i \in 1..Len(M) |-> Array([j \in 1..Len(M) |->
        CDiv(CSub(M[i][j], IF i = j THEN b ELSE CZero), a)], Len(M))], Len(M))

\* jackson(num_moments, precision): the num_moments damping weights
jackson(n) == [k \in 1..n |-> <<k - 1, n>>]

\* one entry of the log of collaborator calls
Call(fn, M, lo, hi, eps) ==
    [fn |-> fn, H |-> M, lmin |-> lo, lmax |-> hi, epsilon |-> eps]

-----------------------------------------------------------------------------
(* rescale_kpm and cupykpm, src/emate/hermitian/kpm.py *)

\* lines 51-52: ek*scale_fact_a + scale_fact_b and rho/scale_fact_a
rescale_kpm(e, r, a, b) ==
    << [j \in 1..Len(e) |-> [x |-> e[j], times |-> a, plus |-> b]],
       [j \in 1..Len(r) |-> [y |-> r[j], over |-> a]] >>

\* estimating only when both bounds are missing
NeedsBoundsBoth(lo, hi) == lo = <<>> /\ hi = <<>>

\* lines 114-115 and 194-195
NeedsBounds(lo, hi) == lo = <<>> \/ hi = <<>>

\* lines 192-195: dimension, and the bounds when one is missing
CupyBounds ==
    /\ entry = "cupykpm"
    /\ pc = "bounds"
    /\ dimension' = Len(H)
    /\ IF NeedsBounds(lmin, lmax)
       THEN /\ lmin' = <<get_bounds(H)[1]>>
            /\ lmax' = <<get_bounds(H)[2]>>
            /\ calls' = Append(calls, Call("get_bounds", H, <<>>, <<>>, <<>>))
       ELSE UNCHANGED <<lmin, lmax, calls>>
    /\ pc' = "rescale"
    /\ UNCHANGED <<entry, args, H, scale_fact_a, scale_fact_b, gmVars, moments,
                   akVars, result>>

\* lines 197-206: the csr copy keeps the entries; rescale_cupy(H, lmin, lmax, epsilon)
CupyRescale ==
    /\ entry = "cupykpm"
    /\ pc = "rescale"
    /\ LET a == ScaleA(lmin[1], lmax[1], args.epsilon)
           b == ScaleB(lmin[1], lmax[1])
       IN  /\ scale_fact_a' = a
           /\ scale_fact_b' = b
           /\ H' = Rescaled(H, a, b)
    /\ calls' = Append(calls, Call("rescale_cupy", H, lmin, lmax, <<args.epsilon>>))
    /\ pc' = "gm_begin"
    /\ UNCHANGED <<entry, args, lmin, lmax, gmVars, dimension, moments, akVars, result>>

\* lines 212-221: kernel0 = cupy_jackson(num_moments), call of apply_kernel
CupyKernel ==
    /\ entry = "cupykpm"
    /\ pc = "cupy_kernel"
    /\ kernel' = jackson(args.num_moments)
    /\ pc' = "ak_begin"
    /\ UNCHANGED <<entry, args, orchVars, gmVars, dimension, moments, ak_moments,
                   num_points, mu_ext, smooth_moments, ek, gk, rho, result>>

\* line 222: ek, rho = rescale_kpm(ek, rho, scale_fact_a, scale_fact_b)
CupyUnscale ==
    /\ entry = "cupykpm"
    /\ pc = "cupy_unscale"
    /\ ek' = rescale_kpm(ek, rho, scale_fact_a, scale_fact_b)[1]
    /\ rho' = rescale_kpm(ek, rho, scale_fact_a, scale_fact_b)[2]
    /\ pc' = "cupy_return"
    /\ UNCHANGED <<entry, args, orchVars, gmVars, dimension, moments, kernel,
                   ak_moments, num_points, mu_ext, smooth_moments, gk, result>>

\* line 224: return rho, ek
CupyReturn ==
    /\ entry = "cupykpm"
    /\ pc = "cupy_return"
    /\ result' = [status |-> "ok", value |-> <<rho, ek>>]
    /\ pc' = "done"
    /\ UNCHANGED <<entry, args, orchVars, gmVars, dimension, moments, akVars>>

-----------------------------------------------------------------------------
(* pykpm (= tfkpm), src/emate/hermitian/kpm.py.  Its moment engine and its  *)
(* reconstruction live in emate.hermitian.tfops.kpm.                        *)

\* one iteration of the three-term recursion for one probe
TfStep(m, a1, a2, i) ==
    Array([m EXCEPT ![2 * i + 1] = CSub(CMul(CInt(2), ConjDot(a1, a1)), m[1]),
                    ![2 * i + 2] = CSub(CMul(CInt(2), ConjDot(a2, a1)), m[2])], Len(m))

RECURSIVE TfRecursion(_, _, _, _, _, _)
\* the three-term recursion for one probe, from iteration i on
TfRecursion(M, a0, a1, m, i, n) ==
    IF i > n \div 2 - 1 THEN m
    ELSE LET a2 == VSub(VScale(2, MatVec(M, a1)), a0)
         IN  TfRecursion(M, a1, a2, TfStep(m, a1, a2, i), i + 1, n)

\* the moments of one probe v
TfProbeMoments(M, v, n) ==
    LET a1 == MatVec(M, v)
        m  == Array([k \in 1..n |-> IF k = 1 THEN ConjDot(v, v)
                                    ELSE IF k = 2 THEN ConjDot(v, a1) ELSE CZero], n)
    IN  TfRecursion(M, v, a1, m, 1, n)

\* get_moments(H, num_vecs, num_moments, alpha0): the sum over the batch
TfGetMoments(M, batch, n) ==
    LET rows == Array([p \in 1..Len(batch) |-> TfProbeMoments(M, batch[p], n)], Len(batch))
    IN  Array([k \in 1..n |-> SumTo([p \in 1..Len(batch) |-> rows[p][k]], Len(batch))], n)

\* the moment engine refuses a num_moments that is odd or below 2
TfMomentsRejects(n) == n < 2 \/ n % 2 = 1

\* the reconstruction refuses a negative extra_points
TfKernelRejects(x) == x < 0

\* apply_kernel, step 1 and 2: the average over probes and dimension, damped
TfDamped(m, kern, dim, v) == ApplyWeights(Average(<<m>>, v, dim), kern)

\* apply_kernel, steps 4 to 6, for the padded sequence ext of np elements
TfReconstruct(ext, np) ==
    LET e == Array([j \in 1..np |-> Node(j - 1, np)], np)
    IN  [smooth_moments |-> DctIII(ext), ek |-> e,
         gk |-> Array([j \in 1..np |-> Weight(e[j])], np)]

\* lines 114-115
PyBounds ==
    /\ entry = "pykpm"
    /\ pc = "bounds"
    /\ IF NeedsBounds(lmin, lmax)
       THEN /\ lmin' = <<get_bounds(H)[1]>>
            /\ lmax' = <<get_bounds(H)[2]>>
            /\ calls' = Append(calls, Call("get_bounds", H, <<>>, <<>>, <<>>))
       ELSE UNCHANGED <<lmin, lmax, calls>>
    /\ pc' = "rescale"
    /\ UNCHANGED <<entry, args, H, scale_fact_a, scale_fact_b, gmVars, dimension,
                   moments, akVars, result>>

\* line 117: rescale_matrix(H, lmin, lmax,) -- no epsilon is passed, the
\* rescaler uses its own default d
PyRescale ==
    /\ entry = "pykpm"
    /\ pc = "rescale"
    /\ \E d \in EpsilonValues :
        LET a == ScaleA(lmin[1], lmax[1], d)
            b == ScaleB(lmin[1], lmax[1])
        IN  /\ scale_fact_a' = a
            /\ scale_fact_b' = b
            /\ H' = Rescaled(H, a, b)
    /\ calls' = Append(calls, Call("rescale_matrix", H, lmin, lmax, <<>>))
    /\ pc' = "graph"
    /\ UNCHANGED <<entry, args, lmin, lmax, gmVars, dimension, moments, akVars, result>>

\* lines 119-173: dimension, the probe batch alpha0 (drawn from the same
\* unit-modulus probes as in get_moments), the moments, the kernel and the
\* reconstruction
PyGraph ==
    /\ entry = "pykpm"
    /\ pc = "graph"
    /\ dimension' = Len(H)
    /\ IF TfMomentsRejects(args.num_moments) \/ TfKernelRejects(args.extra_points)
       THEN /\ result' = [status |-> "InvalidParameter", value |-> <<>>]
            /\ pc' = "raised"
            /\ UNCHANGED <<probes, moments, akVars>>
       ELSE \* (the singleton sets only fix the order of evaluation)
            \E batch \in [1..args.num_vecs -> RandomPhaseVectors(Len(H))] :
            \E m \in {TfGetMoments(H, batch, args.num_moments)} :
            \E avg \in {TfDamped(m, jackson(args.num_moments), Len(H), args.num_vecs)} :
            \E np \in {NumPoints(args.extra_points, args.num_moments)} :
            \E ext \in {Pad(avg, np, args.num_moments)} :
            \E r \in {TfReconstruct(ext, np)} :
                /\ probes' = batch
                /\ moments' = <<m>>
                /\ kernel' = jackson(args.num_moments)
                /\ ak_moments' = avg
                /\ num_points' = np
                /\ mu_ext' = ext
                /\ smooth_moments' = r.smooth_moments
                /\ ek' = r.ek
                /\ gk' = r.gk
                /\ rho' = Divide(r.smooth_moments, r.gk)
                /\ pc' = "py_unscale"
                /\ UNCHANGED result
    /\ UNCHANGED <<entry, args, orchVars, alpha0, alpha1, mu, i_moment, matvecs,
                   iters, writes>>

\* line 174: ek, rho = rescale_kpm(ek, rho, scale_fact_a, scale_fact_b)
PyUnscale ==
    /\ entry = "pykpm"
    /\ pc = "py_unscale"
    /\ ek' = rescale_kpm(ek, rho, scale_fact_a, scale_fact_b)[1]
    /\ rho' = rescale_kpm(ek, rho, scale_fact_a, scale_fact_b)[2]
    /\ pc' = "py_return"
    /\ UNCHANGED <<entry, args, orchVars, gmVars, dimension, moments, kernel,
                   ak_moments, num_points, mu_ext, smooth_moments, gk, result>>

\* lines 176-179: return ek, rho
PyReturn ==
    /\ entry = "pykpm"
    /\ pc = "py_return"
    /\ result' = [status |-> "ok", value |-> <<ek, rho>>]
    /\ pc' = "done"
    /\ UNCHANGED <<entry, args, orchVars, gmVars, dimension, moments, akVars>>

-----------------------------------------------------------------------------
(* Specifications *)

InitCommon ==
    /\ scale_fact_a = CZero /\ scale_fact_b = CZero
    /\ calls = <<>>
    /\ probes = <<>>
    /\ alpha0 = <<>> /\ alpha1 = <<>> /\ mu = <<>> /\ i_moment = 0
    /\ matvecs = 0 /\ iters = 0 /\ writes = <<>>
    /\ moments = <<>>
    /\ kernel = <<>> /\ ak_moments = <<>>
    /\ num_points = 0 /\ mu_ext = <<>> /\ smooth_moments = <<>>
    /\ ek = <<>> /\ gk = <<>> /\ rho = <<>>
    /\ result = NoResult

\* a direct call get_moments(H_rescaled, num_moments, dimension)
InitGetMoments ==
    /\ entry = "get_moments"
    /\ pc = "gm_begin"
    /\ H \in HermitianMatrices
    /\ \E n \in 1..MaxMoments :
        args = [num_moments |-> n]
    /\ dimension = Len(H)
    /\ lmin = <<>> /\ lmax = <<>>
    /\ InitCommon

\* a call cupykpm(H, num_moments, num_vecs, extra_points, precision, lmin, lmax, epsilon)
\* or pykpm(...) with the same arguments
InitOrchestrator ==
    /\ entry \in {"pykpm", "cupykpm"}
    /\ pc = "bounds"
    /\ H \in OrchMatrices
    /\ lmin \in {<<>>, <<-4>>}
    /\ lmax \in {<<>>, <<4>>}
    /\ \E n \in 1..MaxMoments, v \in 1..MaxVecs, x \in -1..MaxExtra,
          e \in EpsilonValues :
        args = [H |-> H, num_moments |-> n, num_vecs |-> v, extra_points |-> x,
                lmin |-> lmin, lmax |-> lmax, epsilon |-> e]
    /\ dimension = 0
    /\ InitCommon

NextGetMoments ==
    \/ GetMomentsBegin
    \/ GetMomentsIter
    \/ GetMomentsReturn

\* one call of get_moments
SpecGetMoments == InitGetMoments /\ [][NextGetMoments]_vars

Next ==
    \/ GetMomentsBegin
    \/ GetMomentsIter
    \/ GetMomentsReturn
    \/ AkAverage
    \/ AkKernel
    \/ AkPad
    \/ AkReconstruct
    \/ CupyBounds
    \/ CupyRescale
    \/ CupyKernel
    \/ CupyUnscale
    \/ CupyReturn
    \/ PyBounds
    \/ PyRescale
    \/ PyGraph
    \/ PyUnscale
    \/ PyReturn

\* one call of pykpm or cupykpm
Spec == InitOrchestrator /\ [][Next]_vars

-----------------------------------------------------------------------------
(* Direct evaluation of the Chebyshev moments, for reference *)

IsEven(n) == n % 2 = 0

Identity(n) ==
    Array([i \in 1..n |-> Array([j \in 1..n |-> IF i = j THEN CInt(1) ELSE CZero], n)], n)

MatMul(A, B) ==
    Array([i \in 1..Len(A) |-> Array([j \in 1..Len(B[1]) |->
        SumTo([k \in 1..Len(B) |-> CMul(A[i][k], B[k][j])], Len(B))], Len(B[1]))], Len(A))

\* 2*A - B
TwiceMinus(A, B) ==
    Array([i \in 1..Len(A) |-> Array([j \in 1..Len(A[1]) |->
        CSub(CMul(CInt(2), A[i][j]), B[i][j])], Len(A[1]))], Len(A))

RECURSIVE DirectFrom(_, _, _, _, _)
\* << conj(v).T_k(M).v, ..., conj(v).T_{k+n-1}(M).v >> given q = << T_k, T_{k+1} >>,
\* the Chebyshev polynomials of the matrix: T_0 = I, T_1 = M,
\* T_{k+1} = 2 M T_k - T_{k-1}
DirectFrom(M, v, q, k, n) ==
    IF n = 0 THEN <<>>
    ELSE <<ConjDot(v, MatVec(q[1], v))>>
            \o DirectFrom(M, v, <<q[2], TwiceMinus(MatMul(M, q[2]), q[1])>>, k + 1, n - 1)

\* the first n directly evaluated moments of the probe v
DirectMoments(M, v, n) == DirectFrom(M, v, <<Identity(Len(M)), M>>, 0, n)

\* ||v||^2
NormSq(v) == SumTo([j \in 1..Len(v) |-> CMul(CConj(v[j]), v[j])], Len(v))

\* the directly evaluated moment sequences of the probes drawn so far
DirectRows(M, n) ==
    Array([p \in 1..Len(probes) |-> DirectMoments(M, probes[p], n)], Len(probes))

Orchestrators == {"pykpm", "cupykpm"}

\* the call to the spectrum rescaler, once made
RescaleCalls == { i \in 1..Len(calls) : calls[i].fn \in {"rescale_matrix", "rescale_cupy"} }
BoundsCalls  == { i \in 1..Len(calls) : calls[i].fn = "get_bounds" }

-----------------------------------------------------------------------------
(* Claims *)

\* C1: get_moments fails with an error for every odd num_moments: a call
\* with an odd num_moments never returns a moment sequence, it ends with a
\* raised error (any raised error is accepted as the InvalidParameter kind).
C1_OddNumMomentsFails ==
    (entry = "get_moments" /\ args.num_moments % 2 = 1)
        => /\ pc # "done"
           /\ result.status # "ok"

\* C2: apply_kernel fails whenever extra_points < 0, by a precondition check
\* made before any averaging, padding or transform work: with a negative
\* extra_points the averaged moments are never computed and no pair is returned.
C2_NegativeExtraFailsBeforeWork ==
    (entry \in Orchestrators /\ args.extra_points < 0)
        => /\ ak_moments = <<>>
           /\ mu_ext = <<>>
           /\ result.status # "ok"

\* C3: every orchestrator entry point returns the pair (eigenvalues, density)
\* in that order: first the unscaled abscissas ek, second the unscaled
\* densities rho, for both backends.
C3_ReturnsEkThenRho ==
    (entry \in Orchestrators /\ pc = "done")
        => result.value = <<ek, rho>>

\* C4: for every even num_moments the sequence produced by the doubling
\* recursion equals the directly evaluated conj(v).T_k(H').v at every index
\* k in 0..num_moments-1; moment 0 is ||v||^2 and moment 1 is conj(v).H'.v.
C4_DoublingMatchesDirect ==
    (entry = "get_moments" /\ pc = "done" /\ IsEven(args.num_moments))
        => /\ result.status = "ok"
           /\ Len(result.value) = args.num_moments
           /\ result.value = DirectMoments(H, probes[1], args.num_moments)
           /\ result.value[1] = NormSq(probes[1])
           /\ result.value[2] = ConjDot(probes[1], MatVec(H, probes[1]))

C4_Witness ==
    /\ entry = "get_moments" /\ pc = "done"
    /\ args.num_moments = 6
    /\ result.value[6].re # 0
    /\ H[1][2].im # 0
    /\ probes[1][1] # probes[1][2]

\* C5: for num_moments >= 2 and extra_points >= 0 the moment sequence is
\* zero-padded to num_points = num_moments + extra_points (the first
\* num_moments entries are the averaged, kernel-weighted moments, the rest
\* are zero), and both returned sequences have num_moments + extra_points
\* elements.
C5_PaddedToNumPoints ==
    (entry \in Orchestrators /\ args.num_moments >= 2 /\ args.extra_points >= 0)
        => LET n == args.num_moments
               x == args.extra_points
           IN  /\ (entry = "cupykpm" => pc # "raised")
               /\ pc \in {"ak_transform", "cupy_unscale", "cupy_return",
                          "py_unscale", "py_return", "done"}
                    => /\ Len(mu_ext) = n + x
                       /\ \A k \in 1..n :
                            /\ mu_ext[k] = ak_moments[k]
                            /\ mu_ext[k].weight = <<k - 1, n>>
                            /\ mu_ext[k].val =
                                 CDiv(CDiv(SumReal(moments, k), CInt(args.num_vecs)),
                                      CInt(dimension))
                       /\ \A k \in (n + 1)..(n + x) : mu_ext[k] = Term(CZero, <<>>)
               /\ pc \in {"cupy_unscale", "cupy_return", "py_unscale", "py_return", "done"}
                    => /\ Len(ek) = n + x
                       /\ Len(rho) = n + x
               /\ pc = "done"
                    => /\ Len(result.value[1]) = n + x
                       /\ Len(result.value[2]) = n + x

C5_Witness ==
    /\ entry = "cupykpm" /\ pc = "done"
    /\ args.num_moments = 4 /\ args.extra_points = 1
    /\ Len(mu_ext) = 5
    /\ mu_ext[5] = Term(CZero, <<>>)
    /\ mu_ext[2].val # CZero

\* C6: in every orchestrator the epsilon supplied by the caller is the
\* epsilon passed to the spectrum rescaler, so that scale_a is
\* (lmax - lmin)/(2 - epsilon) for the caller's epsilon.
C6_CallerEpsilonReachesRescaler ==
    \A i \in RescaleCalls :
        /\ calls[i].epsilon = <<args.epsilon>>
        /\ scale_fact_a = ScaleA(lmin[1], lmax[1], args.epsilon)
        /\ scale_fact_b = ScaleB(lmin[1], lmax[1])

\* C7: every reconstruction node is strictly interior: its angle numerator
\* 2j+1 satisfies 0 < 2j+1 < 2*num_points, so no weight gk[j] is zero and
\* no density value comes from a division by zero.
C7_NodesStrictlyInterior ==
    /\ \A j \in 1..Len(gk) :
        /\ gk[j].of.num = 2 * (j - 1) + 1
        /\ gk[j].of.den = 2 * num_points
        /\ 0 < gk[j].of.num /\ gk[j].of.num < gk[j].of.den
        /\ ~gk[j].zero
    /\ pc \in {"cupy_unscale", "py_unscale"}
        => \A j \in 1..Len(rho) : rho[j].finite
    /\ pc \in {"cupy_return", "py_return", "done"}
        => \A j \in 1..Len(rho) : rho[j].y.finite

C7_Witness ==
    /\ entry = "cupykpm" /\ pc = "cupy_unscale"
    /\ num_points >= 3
    /\ Len(gk) = num_points /\ Len(rho) = num_points
    /\ gk[1].of = Node(0, num_points)

\* C8: over a batch of probes the correction subtracted in the recursion is
\* the probe's own moment 0 (moment 1), so each row is that probe's moment
\* sequence and the aggregate is the plain sum of the per-probe moments,
\* divided by num_vecs and by dimension once, after the sum.
C8_PerProbeCorrection ==
    (entry \in Orchestrators /\ IsEven(args.num_moments))
        => /\ (entry = "cupykpm" /\ pc = "cupy_kernel")
                => moments = DirectRows(H, args.num_moments)
           /\ pc \in {"ak_pad", "py_unscale"}
                => LET rows == DirectRows(H, args.num_moments)
                   IN  \A k \in 1..args.num_moments :
                        ak_moments[k].val =
                            CDiv(CDiv(CReal(SumTo([p \in 1..Len(rows) |-> rows[p][k]],
                                                  Len(rows))),
                                      CInt(args.num_vecs)),
                                 CInt(dimension))

C8_Witness ==
    /\ entry = "cupykpm" /\ pc = "ak_pad"
    /\ args.num_vecs = 2 /\ args.num_moments = 4
    /\ Len(probes) = 2 /\ probes[1] # probes[2]
    /\ moments[1] # moments[2]
    /\ ak_moments[3].val # CZero

\* C9: for every even num_moments one run of get_moments ends after exactly
\* num_moments/2 - 1 iterations and num_moments/2 matrix-vector products,
\* and every index of the moment sequence has been assigned exactly once.
C9_HalfTheProducts ==
    (entry = "get_moments" /\ pc = "done" /\ IsEven(args.num_moments))
        => /\ iters = args.num_moments \div 2 - 1
           /\ matvecs = args.num_moments \div 2
           /\ 2 * matvecs = args.num_moments
           /\ \A k \in 1..args.num_moments : writes[k] = 1

C9_Witness ==
    /\ entry = "get_moments" /\ pc = "done"
    /\ args.num_moments = 6 /\ iters = 2 /\ matvecs = 3

\* C10: get_bounds is called exactly when lmin or lmax is missing, before
\* the rescaling and on the caller's matrix; two supplied bounds reach the
\* rescaler unchanged, and a single supplied bound is dropped: both bounds
\* are then the estimator's.
C10_BoundsEstimatedWhenMissing ==
    (entry \in Orchestrators /\ pc # "bounds")
        => /\ (BoundsCalls # {}) <=> (args.lmin = <<>> \/ args.lmax = <<>>)
           /\ \A i \in BoundsCalls :
                /\ i = 1
                /\ calls[i].H = args.H
                /\ \A j \in RescaleCalls : i < j
           /\ \A j \in RescaleCalls :
                /\ calls[j].H = args.H
                /\ IF args.lmin # <<>> /\ args.lmax # <<>>
                   THEN calls[j].lmin = args.lmin /\ calls[j].lmax = args.lmax
                   ELSE /\ calls[j].lmin = <<get_bounds(args.H)[1]>>
                        /\ calls[j].lmax = <<get_bounds(args.H)[2]>>

C10_Witness ==
    /\ entry = "cupykpm"
    /\ args.lmin # <<>> /\ args.lmax = <<>>
    /\ Len(calls) = 2
    /\ calls[1].fn = "get_bounds"
    /\ calls[2].fn = "rescale_cupy"
    /\ calls[2].lmin # args.lmin

====
